---- MODULE Spec2Model ----
(***************************************************************************)
(* A model of the SendProp subsystem (src/src/demo/sendprop.rs): the raw   *)
(* definition reader, the refinement into parse definitions, the value     *)
(* decoder with its numeric codecs, the lenient value equality and the     *)
(* identifier hash.                                                        *)
(*                                                                         *)
(* Machine words are bit vectors: a sequence of 0/1 whose element i+1 is   *)
(* bit i (least significant first), so that shifts, masks and the          *)
(* truncation of a width are what the code does on i32/u32/u8.  An i32     *)
(* result is also given as an integer (it fits); an i64 is the pair        *)
(* [hi, lo] standing for hi * 65536 + lo with lo in 0..65535.              *)
(***************************************************************************)
EXTENDS Integers, Sequences, FiniteSets, TLC

VARIABLES
    stream,   \* the bit buffer of the Stream: a sequence of bits
    pos,      \* the Stream's cursor: the number of bits consumed
    start,    \* the cursor before the last operation
    props,    \* the raw records read, or the values decoded, so far, in order
    defs,     \* the parse definitions of the values to decode, in order
    op,       \* the last operation performed
    arg,      \* the input of the last operation
    res       \* the result of the last operation

vars == <<stream, pos, start, props, defs, op, arg, res>>

(***************************************************************************)
(* Options and results.                                                    *)
(***************************************************************************)
None == <<>>

Some(x) == <<x>>

IsSome(o) == Len(o) = 1

Unwrap(o) == o[1]

\* ReadResult of the Stream: the value and the cursor after the read
ROk(v, p) == [ok |-> TRUE, val |-> v, pos |-> p]

RErr(p) == [ok |-> FALSE, err |-> "ReadError", pos |-> p]

Ok(v) == [ok |-> TRUE, val |-> v]

Err(e) == [ok |-> FALSE, err |-> e]

(***************************************************************************)
(* Bit vectors.                                                            *)
(***************************************************************************)
\* a function over 1..n as an explicit sequence
Vec(f, n) == SubSeq(f, 1, n)

RECURSIVE Pow2(_)
Pow2(n) == IF n = 0 THEN 1 ELSE 2 * Pow2(n - 1)

\* the value of a bit vector (below 2^31), its halves evaluated separately
RECURSIVE BitsVal(_)
BitsVal(bits) ==
    IF Len(bits) = 0 THEN 0
    ELSE IF Len(bits) = 1 THEN bits[1]
    ELSE LET h == Len(bits) \div 2
             upper == BitsVal(SubSeq(bits, h + 1, Len(bits)))
         IN  IF upper = 0 THEN BitsVal(SubSeq(bits, 1, h))
             ELSE BitsVal(SubSeq(bits, 1, h)) + Pow2(h) * upper

\* the w low bits of the natural number n
NatBits(n, w) == Vec([i \in 1..w |-> (n \div Pow2(i - 1)) % 2], w)

\* zero-extension (or truncation) of a bit vector to w bits
ZeroExt(bits, w) ==
    Vec([i \in 1..w |-> IF i <= Len(bits) THEN bits[i] ELSE 0], w)

\* sign-extension of an n-bit field to w bits (n = 0 gives zero)
SignExt(bits, w) ==
    Vec([i \in 1..w |-> IF i <= Len(bits) THEN bits[i]
                        ELSE IF Len(bits) = 0 THEN 0 ELSE bits[Len(bits)]], w)

Or32(a, b) == Vec([i \in 1..32 |-> IF a[i] = 1 \/ b[i] = 1 THEN 1 ELSE 0], 32)

And32(a, b) == Vec([i \in 1..32 |-> IF a[i] = 1 /\ b[i] = 1 THEN 1 ELSE 0], 32)

Xor32(a, b) == Vec([i \in 1..32 |-> IF a[i] = b[i] THEN 0 ELSE 1], 32)

\* i32 << k for k < 32: the bits shifted out are lost
Shl32(a, k) == Vec([i \in 1..32 |-> IF i - k >= 1 THEN a[i - k] ELSE 0], 32)

\* i32 >> k: the arithmetic shift of a signed word
Sar32(a, k) == Vec([i \in 1..32 |-> IF i + k <= 32 THEN a[i + k] ELSE a[32]], 32)

\* u32 >> k: the logical shift
Shr32(a, k) == Vec([i \in 1..32 |-> IF i + k <= 32 THEN a[i + k] ELSE 0], 32)

\* two's complement negation (wrapping)
Neg32(a) ==
    LET set == {i \in 1..32 : a[i] = 1}
    IN  IF set = {} THEN a
        ELSE LET k == CHOOSE i \in set : \A j \in set : i <= j
             IN  Vec([i \in 1..32 |-> IF i <= k THEN a[i] ELSE 1 - a[i]], 32)

\* the 32-bit two's complement word of an integer in [-2^31, 2^31 - 1]
I32Bits(n) ==
    IF n >= 0 THEN ZeroExt(NatBits(n, 31), 32)
    ELSE Vec([i \in 1..32 |->
                IF i = 32 THEN 1
                ELSE (((n + 1073741824) + 1073741824) \div Pow2(i - 1)) % 2], 32)

\* the integer a 32-bit word stands for as an i32
I32Val(w) ==
    LET low == BitsVal(SubSeq(w, 1, 31))
    IN  IF w[32] = 1 THEN (low - 1073741824) - 1073741824 ELSE low

\* i64 values: hi * 65536 + lo
I64(h, l) == [hi |-> h, lo |-> l]

\* i32 as i64 (sign-extending) and u32 as i64 (zero-extending)
I64FromI32(w) ==
    LET h == BitsVal(SubSeq(w, 17, 32))
    IN  I64(IF w[32] = 1 THEN h - 65536 ELSE h, BitsVal(SubSeq(w, 1, 16)))

I64FromU32(w) == I64(BitsVal(SubSeq(w, 17, 32)), BitsVal(SubSeq(w, 1, 16)))

I64FromInt(n) == I64(n \div 65536, n % 65536)

I64Leq(a, b) == a.hi < b.hi \/ (a.hi = b.hi /\ a.lo <= b.lo)

\* the bits of a sequence of bytes, each byte least significant bit first
BytesToBits(bytes) ==
    Vec([i \in 1..(8 * Len(bytes)) |->
            (bytes[((i - 1) \div 8) + 1] \div Pow2((i - 1) % 8)) % 2],
        8 * Len(bytes))

(***************************************************************************)
(* The bit reader (Stream = bitbuffer's little-endian BitReadStream): the  *)
(* typed reads the decoder consumes.  A read that runs past the end of the *)
(* buffer, or asks for more bits than its type holds, fails and leaves the *)
(* cursor where it was.                                                    *)
(***************************************************************************)
\* read_int::<uW>(n) / read_sized::<uW>(n): n bits, zero-extended to w
ReadUInt(s, p, n, w) ==
    IF n > w \/ p + n > Len(s) THEN RErr(p)
    ELSE ROk(ZeroExt(SubSeq(s, p + 1, p + n), w), p + n)

\* read_int::<iW>(n): n bits, sign-extended from bit n - 1 to w
ReadSInt(s, p, n, w) ==
    IF n > w \/ p + n > Len(s) THEN RErr(p)
    ELSE ROk(SignExt(SubSeq(s, p + 1, p + n), w), p + n)

\* read::<bool>(): one bit
ReadBool(s, p) ==
    IF p + 1 > Len(s) THEN RErr(p) ELSE ROk(s[p + 1] = 1, p + 1)

\* read::<u8>(): one byte
ReadU8(s, p) == ReadUInt(s, p, 8, 8)

\* read::<f32>(): the 32 bits of an IEEE-754 single, kept as its bit pattern
ReadF32(s, p) ==
    IF p + 32 > Len(s) THEN RErr(p)
    ELSE ROk([bits |-> SubSeq(s, p + 1, p + 32)], p + 32)

\* read_sized::<String>(len): len bytes of text, kept as the byte values
ReadSizedString(s, p, len) ==
    IF p + 8 * len > Len(s) THEN RErr(p)
    ELSE ROk(Vec([i \in 1..len |->
                    BitsVal(SubSeq(s, p + 8 * (i - 1) + 1, p + 8 * i))], len),
             p + 8 * len)

\* read_string(None): bytes up to a terminating NUL, which is consumed
RECURSIVE ReadCStringFrom(_, _, _)
ReadCStringFrom(s, p, acc) ==
    IF p + 8 > Len(s) THEN RErr(p)
    ELSE LET b == BitsVal(SubSeq(s, p + 1, p + 8))
         IN  IF b = 0 THEN ROk(acc, p + 8)
             ELSE ReadCStringFrom(s, p + 8, Append(acc, b))

ReadCString(s, p) == ReadCStringFrom(s, p, <<>>)

(***************************************************************************)
(* read_var_int                                                            *)
(***************************************************************************)
Zero32 == Vec([i \in 1..32 |-> 0], 32)

\* a loop without the bound on i: it stops only at a byte whose high bit is
\* clear
RECURSIVE VarIntLoopUnbounded(_, _, _, _)
VarIntLoopUnbounded(s, p, i, result) ==
    LET r == ReadU8(s, p)
    IN  IF ~r.ok THEN r
        ELSE LET byte == r.val
                 low7 == ZeroExt(SubSeq(byte, 1, 7), 32)
                 acc  == Or32(result, Shl32(low7, i))
             IN  IF byte[8] = 0 THEN ROk(acc, r.pos)
                 ELSE VarIntLoopUnbounded(s, r.pos, i + 7, acc)

\* one round of the loop over i = 0, 7, 14, 21, 28
RECURSIVE VarIntLoop(_, _, _, _)
VarIntLoop(s, p, i, result) ==
    IF i >= 35 THEN ROk(result, p)
    ELSE LET r == ReadU8(s, p)
         IN  IF ~r.ok THEN r
             ELSE LET byte == r.val
                      low7 == ZeroExt(SubSeq(byte, 1, 7), 32)
                      acc  == Or32(result, Shl32(low7, i))
                  IN  IF byte[8] = 0 THEN ROk(acc, r.pos)
                      ELSE VarIntLoop(s, r.pos, i + 7, acc)

\* (result >> 1) ^ -(result & 1) on the i32 result: >> is the arithmetic shift
ZigZagDecode(result) ==
    Xor32(Sar32(result, 1), Neg32(And32(result, I32Bits(1))))

read_var_int(s, p, signed) ==
    LET r == VarIntLoop(s, p, 0, Zero32)
    IN  IF ~r.ok THEN r
        ELSE ROk(IF signed THEN ZigZagDecode(r.val) ELSE r.val, r.pos)

(***************************************************************************)
(* SendPropType, SendPropFlag, RawSendPropDefinition                       *)
(***************************************************************************)
\* the discriminants 0..7, in order
SendPropType ==
    <<"Int", "Float", "Vector", "VectorXY", "String", "Array", "DataTable",
      "NumSendPropTypes">>

\* the flags by bit position: element i + 1 has the mask 2^i
SendPropFlag ==
    <<"Unsigned", "Coord", "NoScale", "RoundDown", "RoundUp", "NormalVarInt",
      "Exclude", "XYZE", "InsideArray", "ProxyAlwaysYes", "ChangesOften",
      "IsVectorElement", "Collapsible", "CoordMP", "CoordMPLowPrecision",
      "CoordMPIntegral">>

\* SendPropType::read: a 5-bit discriminant; an unknown one is a read error
ReadSendPropType(s, p) ==
    LET r == ReadUInt(s, p, 5, 8)
    IN  IF ~r.ok THEN r
        ELSE IF BitsVal(r.val) >= Len(SendPropType) THEN RErr(p)
        ELSE ROk(SendPropType[BitsVal(r.val) + 1], r.pos)

\* SendPropFlags::read: 16 bits, every one of them a flag
ReadSendPropFlags(s, p) ==
    LET r == ReadUInt(s, p, 16, 16)
    IN  IF ~r.ok THEN r
        ELSE ROk({SendPropFlag[i] : i \in {j \in 1..16 : r.val[j] = 1}}, r.pos)

\* the conditional tail of a record and the NoScale promotion of bit_count
RawReadTail(s, p, prop_type, name, owner_table, flags) ==
    LET blank == [prop_type |-> prop_type, name |-> name,
                  owner_table |-> owner_table, flags |-> flags,
                  table_name |-> None, low_value |-> None, high_value |-> None,
                  bit_count |-> None, element_count |-> None,
                  array_property |-> None]
        promote(rec) ==
            IF "NoScale" \in flags
            THEN IF prop_type = "Float"
                 THEN [rec EXCEPT !.bit_count = Some(32)]
                 ELSE IF prop_type = "Vector" /\ "NormalVarInt" \notin flags
                 THEN [rec EXCEPT !.bit_count = Some(32 * 3)]
                 ELSE rec
            ELSE rec
    IN  IF "Exclude" \in flags \/ prop_type = "DataTable"
        THEN LET t == ReadCString(s, p)
             IN  IF ~t.ok THEN t
                 ELSE ROk(promote([blank EXCEPT !.table_name = Some(t.val)]), t.pos)
        ELSE IF prop_type = "Array"
        THEN LET e == ReadUInt(s, p, 10, 16)
             IN  IF ~e.ok THEN e
                 ELSE ROk(promote([blank EXCEPT
                                     !.element_count = Some(BitsVal(e.val))]), e.pos)
        ELSE LET lo == ReadF32(s, p)
             IN  IF ~lo.ok THEN lo
                 ELSE LET hi == ReadF32(s, lo.pos)
                      IN  IF ~hi.ok THEN hi
                          ELSE LET bc == ReadUInt(s, hi.pos, 7, 32)
                               IN  IF ~bc.ok THEN bc
                                   ELSE ROk(promote([blank EXCEPT
                                              !.low_value = Some(lo.val),
                                              !.high_value = Some(hi.val),
                                              !.bit_count = Some(BitsVal(bc.val))]),
                                            bc.pos)

\* RawSendPropDefinition::read
RawRead(s, p, owner_table) ==
    LET t == ReadSendPropType(s, p)
    IN  IF ~t.ok THEN t
        ELSE LET n == ReadCString(s, t.pos)
             IN  IF ~n.ok THEN n
                 ELSE LET f == ReadSendPropFlags(s, n.pos)
                      IN  IF ~f.ok THEN f
                          ELSE RawReadTail(s, f.pos, t.val, n.val, owner_table, f.val)

\* with_array_property leaving the record's own array_property in place
with_array_property_unbound(self, array_property) ==
    [prop_type |-> self.prop_type, name |-> self.name,
     owner_table |-> self.owner_table, flags |-> self.flags,
     table_name |-> self.table_name, low_value |-> self.low_value,
     high_value |-> self.high_value, bit_count |-> self.bit_count,
     element_count |-> self.element_count,
     array_property |-> self.array_property]

\* RawSendPropDefinition::with_array_property
with_array_property(self, array_property) ==
    [prop_type |-> self.prop_type, name |-> self.name,
     owner_table |-> self.owner_table, flags |-> self.flags,
     table_name |-> self.table_name, low_value |-> self.low_value,
     high_value |-> self.high_value, bit_count |-> self.bit_count,
     element_count |-> self.element_count,
     array_property |-> Some(array_property)]

(***************************************************************************)
(* FloatDefinition, SendPropParseDefinition and the refinement             *)
(***************************************************************************)
\* FloatDefinition::new testing NoScale before the CoordMP family
FloatDefinitionNew_NoScaleFirst(flags, bit_count, high, low) ==
    IF "Coord" \in flags THEN Ok([kind |-> "Coord"])
    ELSE IF "NoScale" \in flags THEN Ok([kind |-> "FloatNoScale"])
    ELSE IF "CoordMP" \in flags THEN Ok([kind |-> "CoordMP"])
    ELSE IF "CoordMPLowPrecision" \in flags THEN Ok([kind |-> "CoordMPLowPrecision"])
    ELSE IF "CoordMPIntegral" \in flags THEN Ok([kind |-> "CoordMPIntegral"])
    ELSE IF "NormalVarInt" \in flags THEN Ok([kind |-> "NormalVarFloat"])
    ELSE IF IsSome(bit_count) /\ IsSome(high) /\ IsSome(low)
    THEN Ok([kind |-> "Scaled", bit_count |-> Unwrap(bit_count) % 256,
             high |-> Unwrap(high), low |-> Unwrap(low)])
    ELSE Err("UnsizedFloat")

\* FloatDefinition::new
FloatDefinitionNew(flags, bit_count, high, low) ==
    IF "Coord" \in flags THEN Ok([kind |-> "Coord"])
    ELSE IF "CoordMP" \in flags THEN Ok([kind |-> "CoordMP"])
    ELSE IF "CoordMPLowPrecision" \in flags THEN Ok([kind |-> "CoordMPLowPrecision"])
    ELSE IF "CoordMPIntegral" \in flags THEN Ok([kind |-> "CoordMPIntegral"])
    ELSE IF "NoScale" \in flags THEN Ok([kind |-> "FloatNoScale"])
    ELSE IF "NormalVarInt" \in flags THEN Ok([kind |-> "NormalVarFloat"])
    ELSE IF IsSome(bit_count) /\ IsSome(high) /\ IsSome(low)
    THEN Ok([kind |-> "Scaled", bit_count |-> Unwrap(bit_count) % 256,
             high |-> Unwrap(high), low |-> Unwrap(low)])
    ELSE Err("UnsizedFloat")

\* log_base2 of crate::demo::message::stringtable: floor(log2(num)), 0 for 0
RECURSIVE log_base2(_)
log_base2(num) == IF num <= 1 THEN 0 ELSE 1 + log_base2(num \div 2)

\* bit_count.unwrap_or(32) as u8
IntBitCount(bit_count) ==
    (IF IsSome(bit_count) THEN Unwrap(bit_count) ELSE 32) % 256

\* the Float, Vector and VectorXY arms: the float definition, wrapped
RefineFloat(kind, definition, changes_often) ==
    LET fd == FloatDefinitionNew(definition.flags, definition.bit_count,
                                 definition.high_value, definition.low_value)
    IN  IF ~fd.ok THEN fd
        ELSE Ok([kind |-> kind, changes_often |-> changes_often,
                 definition |-> fd.val])

\* a count width without the + 1
CountBitCount_Log2Only(element_count) == log_base2(element_count) % 65536

\* log_base2(element_count) as u16 + 1
CountBitCount(element_count) == (log_base2(element_count) % 65536) + 1

\* Array preconditions that look for the element record first
ArrayPreconditions_UntypedFirst(definition) ==
    IF ~IsSome(definition.array_property) THEN Err("UntypedArray")
    ELSE IF ~IsSome(definition.element_count) THEN Err("UnsizedArray")
    ELSE Ok(CountBitCount(Unwrap(definition.element_count)))

\* the two ok_or(..)? of the Array arm, in order: the count width is computed
\* from element_count, then the element record is looked for
ArrayPreconditions(definition) ==
    IF ~IsSome(definition.element_count) THEN Err("UnsizedArray")
    ELSE IF ~IsSome(definition.array_property) THEN Err("UntypedArray")
    ELSE Ok(CountBitCount(Unwrap(definition.element_count)))

\* SendPropParseDefinition::try_from(&RawSendPropDefinition)
RECURSIVE TryFrom(_)
TryFrom(definition) ==
    LET changes_often == "ChangesOften" \in definition.flags
    IN  CASE definition.prop_type = "Int" ->
               IF "NormalVarInt" \in definition.flags
               THEN Ok([kind |-> "NormalVarInt", changes_often |-> changes_often,
                        unsigned |-> "Unsigned" \in definition.flags])
               ELSE IF "Unsigned" \in definition.flags
               THEN Ok([kind |-> "UnsignedInt", changes_often |-> changes_often,
                        bit_count |-> IntBitCount(definition.bit_count)])
               ELSE Ok([kind |-> "Int", changes_often |-> changes_often,
                        bit_count |-> IntBitCount(definition.bit_count)])
          [] definition.prop_type = "Float" ->
               RefineFloat("Float", definition, changes_often)
          [] definition.prop_type = "String" ->
               Ok([kind |-> "String", changes_often |-> changes_often])
          [] definition.prop_type = "Vector" ->
               RefineFloat("Vector", definition, changes_often)
          [] definition.prop_type = "VectorXY" ->
               RefineFloat("VectorXY", definition, changes_often)
          [] definition.prop_type = "Array" ->
               LET count_bit_count == ArrayPreconditions(definition)
               IN  IF ~count_bit_count.ok THEN count_bit_count
                   ELSE LET inner == TryFrom(Unwrap(definition.array_property))
                        IN  IF ~inner.ok THEN inner
                            ELSE Ok([kind |-> "Array",
                                     changes_often |-> changes_often,
                                     inner_definition |-> inner.val,
                                     count_bit_count |-> count_bit_count.val])
          [] OTHER -> Err("InvalidPropType")

(***************************************************************************)
(* f32 values.  A value computed by a codec is the exact rational          *)
(* num / den (the codecs' sums and products of small integers and powers   *)
(* of two are exact in f32); den = 0 is NaN.  A value read raw from the    *)
(* stream is its bit pattern, [bits |-> ...].                              *)
(***************************************************************************)
F32(n, d) == [num |-> n, den |-> d]

NaN == F32(0, 0)

IsNaN(a) == a.den = 0

F32FromInt(n) == F32(n, 1)

F32Add(a, b) ==
    IF IsNaN(a) \/ IsNaN(b) THEN NaN
    ELSE F32(a.num * b.den + b.num * a.den, a.den * b.den)

F32Sub(a, b) ==
    IF IsNaN(a) \/ IsNaN(b) THEN NaN
    ELSE F32(a.num * b.den - b.num * a.den, a.den * b.den)

F32Mul(a, b) ==
    IF IsNaN(a) \/ IsNaN(b) THEN NaN ELSE F32(a.num * b.num, a.den * b.den)

F32Neg(a) == F32(-a.num, a.den)

\* a == b and a < b on f32: false when either is NaN
F32Eq(a, b) == ~IsNaN(a) /\ ~IsNaN(b) /\ a.num * b.den = b.num * a.den

F32Less(a, b) == ~IsNaN(a) /\ ~IsNaN(b) /\ a.num * b.den < b.num * a.den

(***************************************************************************)
(* f32 arithmetic with its rounding, for the Scaled codec.  A single is    *)
(* zero, inf, nan or fin; a fin is s * m * 2^e with s = 1 or -1 and        *)
(* 2^23 <= m < 2^24.  Every operation rounds its exact result to the       *)
(* nearest single, ties to the even mantissa.  Results below the normal    *)
(* range (e < -149) are kept with their full mantissa.                     *)
(***************************************************************************)
Single(k, s, m, e) == [k |-> k, s |-> s, m |-> m, e |-> e]

SingleZero(s) == Single("zero", s, 0, 0)

SingleInf(s) == Single("inf", s, 0, 0)

SingleNaN == Single("nan", 1, 0, 0)

\* the number of bits of a natural below 2^31
RECURSIVE BitLength(_)
BitLength(n) == IF n = 0 THEN 0 ELSE 1 + BitLength(n \div 2)

\* n with its d lowest bits rounded away; sticky tells that the exact value
\* lies above n
RoundShift(n, d, sticky) ==
    IF (n % Pow2(d)) > Pow2(d - 1)
       \/ ((n % Pow2(d)) = Pow2(d - 1) /\ (sticky \/ (n \div Pow2(d)) % 2 = 1))
    THEN (n \div Pow2(d)) + 1
    ELSE n \div Pow2(d)

\* the single nearest to s * (n + sticky fraction) * 2^e, for n below 2^31;
\* a sticky n has at least 26 bits
SingleRound(s, n, e, sticky) ==
    IF n = 0 THEN SingleZero(s)
    ELSE IF BitLength(n) <= 24
    THEN Single("fin", s, n * Pow2(24 - BitLength(n)), e - (24 - BitLength(n)))
    ELSE IF RoundShift(n, BitLength(n) - 24, sticky) = Pow2(24)
    THEN Single("fin", s, Pow2(23), e + BitLength(n) - 24 + 1)
    ELSE Single("fin", s, RoundShift(n, BitLength(n) - 24, sticky),
                e + BitLength(n) - 24)

\* the index of the highest set bit of a bit vector, 0 when none is set
HighBit(bits) ==
    IF \A i \in 1..Len(bits) : bits[i] = 0 THEN 0
    ELSE CHOOSE i \in 1..Len(bits) :
             bits[i] = 1 /\ \A j \in (i + 1)..Len(bits) : bits[j] = 0

\* s * (the unsigned number of a 32-bit vector) as f32
SingleFromMagnitude(s, bits) ==
    IF HighBit(bits) <= 30 THEN SingleRound(s, BitsVal(bits), 0, FALSE)
    ELSE SingleRound(s, BitsVal(SubSeq(bits, HighBit(bits) - 29, HighBit(bits))),
                     HighBit(bits) - 30,
                     \E i \in 1..(HighBit(bits) - 30) : bits[i] = 1)

\* u32 as f32 and i32 as f32
SingleFromU32(bits) == SingleFromMagnitude(1, bits)

SingleFromI32(bits) ==
    IF bits[32] = 1 THEN SingleFromMagnitude(-1, Neg32(bits))
    ELSE SingleFromMagnitude(1, bits)

\* the single of an IEEE-754 bit pattern
SingleFromBits(bits) ==
    LET s == IF bits[32] = 1 THEN -1 ELSE 1
        exponent == BitsVal(SubSeq(bits, 24, 31))
        fraction == BitsVal(SubSeq(bits, 1, 23))
    IN  IF exponent = 255
        THEN (IF fraction = 0 THEN SingleInf(s) ELSE SingleNaN)
        ELSE IF exponent = 0 THEN SingleRound(s, fraction, -149, FALSE)
        ELSE Single("fin", s, Pow2(23) + fraction, exponent - 150)

SingleNeg(a) == IF a.k = "nan" THEN a ELSE [a EXCEPT !.s = -a.s]

\* a + b for fins with a.e >= b.e: on the scale 2^(a.e - 3), the bits of b
\* below it collected in a sticky bit
SingleAddAligned(a, b) ==
    IF a.e - b.e >= 26 THEN a
    ELSE LET d == a.e - b.e
             B == IF d <= 3 THEN b.m * Pow2(3 - d) ELSE b.m \div Pow2(d - 3)
             sticky == d > 3 /\ b.m % Pow2(d - 3) # 0
             sum == a.s * a.m * 8 + b.s * B
                    - (IF sticky /\ a.s # b.s THEN a.s ELSE 0)
         IN  IF sum = 0 /\ ~sticky THEN SingleZero(1)
             ELSE SingleRound(IF sum < 0 THEN -1 ELSE 1,
                              IF sum < 0 THEN -sum ELSE sum, a.e - 3, sticky)

\* a + b
SingleAdd(a, b) ==
    CASE a.k = "nan" \/ b.k = "nan" -> SingleNaN
      [] a.k = "inf" /\ b.k = "inf" -> IF a.s = b.s THEN a ELSE SingleNaN
      [] a.k = "inf" -> a
      [] b.k = "inf" -> b
      [] a.k = "zero" /\ b.k = "zero" ->
            SingleZero(IF a.s = -1 /\ b.s = -1 THEN -1 ELSE 1)
      [] a.k = "zero" -> b
      [] b.k = "zero" -> a
      [] OTHER -> IF a.e >= b.e THEN SingleAddAligned(a, b)
                  ELSE SingleAddAligned(b, a)

\* a - b
SingleSub(a, b) == SingleAdd(a, SingleNeg(b))

\* the product of two 24-bit mantissas: its top 30 bits, and whether the 18
\* bits below hold any
MantissaProduct(x, y) ==
    LET p0 == (x % 4096) * (y % 4096)
        p1 == (x \div 4096) * (y % 4096) + (x % 4096) * (y \div 4096)
        p2 == (x \div 4096) * (y \div 4096)
        t1 == p1 + p0 \div 4096
        t2 == p2 + t1 \div 4096
    IN  [top |-> t2 * 64 + (t1 % 4096) \div 64,
         sticky |-> (t1 % 64) # 0 \/ (p0 % 4096) # 0]

SingleMulRounded(s, product, e) ==
    SingleRound(s, product.top, e, product.sticky)

\* a * b
SingleMul(a, b) ==
    CASE a.k = "nan" \/ b.k = "nan" -> SingleNaN
      [] (a.k = "inf" /\ b.k = "zero") \/ (a.k = "zero" /\ b.k = "inf") ->
            SingleNaN
      [] a.k = "inf" \/ b.k = "inf" -> SingleInf(a.s * b.s)
      [] a.k = "zero" \/ b.k = "zero" -> SingleZero(a.s * b.s)
      [] OTHER -> SingleMulRounded(a.s * b.s, MantissaProduct(a.m, b.m),
                                   a.e + b.e + 18)

\* n further bits of the quotient of a long division by a divisor below 2^24
RECURSIVE LongDivision(_, _, _, _)
LongDivision(quotient, remainder, divisor, n) ==
    IF n = 0 THEN [quotient |-> quotient, sticky |-> remainder # 0]
    ELSE IF 2 * remainder >= divisor
    THEN LongDivision(2 * quotient + 1, 2 * remainder - divisor, divisor, n - 1)
    ELSE LongDivision(2 * quotient, 2 * remainder, divisor, n - 1)

SingleDivRounded(s, division, e) ==
    SingleRound(s, division.quotient, e, division.sticky)

\* a / b
SingleDiv(a, b) ==
    CASE a.k = "nan" \/ b.k = "nan" -> SingleNaN
      [] (a.k = "inf" /\ b.k = "inf") \/ (a.k = "zero" /\ b.k = "zero") ->
            SingleNaN
      [] a.k = "inf" \/ b.k = "zero" -> SingleInf(a.s * b.s)
      [] a.k = "zero" \/ b.k = "inf" -> SingleZero(a.s * b.s)
      [] OTHER -> SingleDivRounded(a.s * b.s,
                                   LongDivision(a.m \div b.m, a.m % b.m, b.m, 26),
                                   a.e - b.e - 26)

\* a == b on f32
SingleEq(a, b) ==
    /\ a.k # "nan"
    /\ b.k # "nan"
    /\ (a.k = "zero" /\ b.k = "zero") \/ a = b

(***************************************************************************)
(* The float codecs                                                        *)
(***************************************************************************)
\* get_frac_factor: 1.0 / ((1 << bits) as f32)
get_frac_factor(bits) == F32(1, Pow2(bits))

\* r? : the error of a failed read is returned, a successful one goes on
Try(r, Then(_)) == IF ~r.ok THEN r ELSE Then(r)

\* read_bit_coord
read_bit_coord(s, p) ==
    Try(ReadBool(s, p), LAMBDA has_int :
    Try(ReadBool(s, has_int.pos), LAMBDA has_frac :
    IF has_int.val \/ has_frac.val
    THEN Try(ReadBool(s, has_frac.pos), LAMBDA neg :
         Try(IF has_int.val THEN ReadUInt(s, neg.pos, 14, 16)
             ELSE ROk(NatBits(0, 16), neg.pos), LAMBDA i :
         Try(IF has_frac.val THEN ReadUInt(s, i.pos, 5, 8)
             ELSE ROk(NatBits(0, 8), i.pos), LAMBDA f :
         LET sign == IF neg.val THEN F32FromInt(-1) ELSE F32FromInt(1)
             int_val == IF has_int.val THEN BitsVal(i.val) + 1 ELSE 0
             frac_val == BitsVal(f.val)
             value == F32Add(F32FromInt(int_val),
                             F32Mul(F32FromInt(frac_val), get_frac_factor(5)))
         IN  ROk(F32Mul(value, sign), f.pos))))
    ELSE ROk(F32FromInt(0), has_frac.pos)))

\* an integer field whose two widths are exchanged
CoordMPIntSwapped(s, p, in_bounds) ==
    Try(ReadUInt(s, p, IF in_bounds THEN 14 ELSE 11, 32), LAMBDA r :
    ROk(F32FromInt(BitsVal(r.val) + 1), r.pos))

\* the 11 or 14 bit integer field of read_bit_coord_mp, plus 1
CoordMPInt(s, p, in_bounds) ==
    Try(ReadUInt(s, p, IF in_bounds THEN 11 ELSE 14, 32), LAMBDA r :
    ROk(F32FromInt(BitsVal(r.val) + 1), r.pos))

\* a value whose sign bit is not applied
SignIgnored(value, is_negative) == value

\* value, or -value when is_negative
Signed(value, is_negative) == IF is_negative THEN F32Neg(value) ELSE value

\* read_bit_coord_mp
read_bit_coord_mp(s, p, is_integral, low_precision) ==
    Try(ReadBool(s, p), LAMBDA in_bounds :
    Try(ReadBool(s, in_bounds.pos), LAMBDA has_int_val :
    IF is_integral
    THEN IF has_int_val.val
         THEN Try(ReadBool(s, has_int_val.pos), LAMBDA neg :
              Try(CoordMPInt(s, neg.pos, in_bounds.val), LAMBDA i :
              ROk(Signed(i.val, neg.val), i.pos)))
         ELSE ROk(F32FromInt(0), has_int_val.pos)
    ELSE Try(ReadBool(s, has_int_val.pos), LAMBDA neg :
         Try(IF has_int_val.val THEN CoordMPInt(s, neg.pos, in_bounds.val)
             ELSE ROk(F32FromInt(0), neg.pos), LAMBDA i :
         Try(ReadUInt(s, i.pos, IF low_precision THEN 3 ELSE 5, 32), LAMBDA f :
         ROk(Signed(F32Add(i.val,
                           F32Mul(F32FromInt(BitsVal(f.val)),
                                  get_frac_factor(IF low_precision
                                                  THEN 3 ELSE 5))),
                    neg.val),
             f.pos))))))

\* read_bit_normal
read_bit_normal(s, p) ==
    Try(ReadBool(s, p), LAMBDA neg :
    Try(ReadUInt(s, neg.pos, 11, 16), LAMBDA f :
    ROk(Signed(F32Mul(F32FromInt(BitsVal(f.val)), get_frac_factor(11)),
               neg.val),
        f.pos)))

\* a denominator 2^bit_count - 1 computed without wrapping
ScaledDenominator_Unwrapped(bit_count) ==
    IF bit_count = 0 THEN SingleZero(1)
    ELSE IF bit_count <= 24
    THEN SingleRound(1, Pow2(bit_count) - 1, 0, FALSE)
    ELSE Single("fin", 1, Pow2(23), bit_count - 23)

\* (1i32.wrapping_shl(bit_count as u32)) as f32 - 1.0: the shift amount is
\* taken modulo 32
ScaledDenominator(bit_count) ==
    SingleSub(SingleFromI32(Shl32(I32Bits(1), bit_count % 32)),
              Single("fin", 1, Pow2(23), -23))

\* low + ((high - low) * percentage), percentage = raw as f32 / denominator
ScaledValue(raw, denominator, low, high) ==
    SingleAdd(low, SingleMul(SingleSub(high, low),
                             SingleDiv(SingleFromU32(raw), denominator)))

\* the Scaled arm of read_float: raw is read as a u32 of bit_count bits
ReadScaled(s, p, bit_count, low, high) ==
    Try(ReadUInt(s, p, bit_count, 32), LAMBDA raw :
    ROk(ScaledValue(raw.val, ScaledDenominator(bit_count),
                    SingleFromBits(low.bits), SingleFromBits(high.bits)),
        raw.pos))

\* SendPropValue::read_float
read_float(s, p, definition) ==
    CASE definition.kind = "Coord" -> read_bit_coord(s, p)
      [] definition.kind = "CoordMP" -> read_bit_coord_mp(s, p, FALSE, FALSE)
      [] definition.kind = "CoordMPLowPrecision" ->
            read_bit_coord_mp(s, p, FALSE, TRUE)
      [] definition.kind = "CoordMPIntegral" ->
            read_bit_coord_mp(s, p, TRUE, FALSE)
      [] definition.kind = "FloatNoScale" -> ReadF32(s, p)
      [] definition.kind = "NormalVarFloat" -> read_bit_normal(s, p)
      [] definition.kind = "Scaled" ->
            ReadScaled(s, p, definition.bit_count, definition.low, definition.high)

(***************************************************************************)
(* SendPropValue::parse                                                    *)
(***************************************************************************)
Min(a, b) == IF a <= b THEN a ELSE b

Max(a, b) == IF a >= b THEN a ELSE b

\* Vec::with_capacity and Vec::push: a push into a full vector grows it
VecWithCapacity(n) == [items |-> <<>>, cap |-> n]

VecPush(v, x) ==
    [items |-> Append(v.items, x),
     cap |-> IF Len(v.items) = v.cap THEN Max(2 * v.cap, 4) ELSE v.cap]

Integer(v) == [kind |-> "Integer", v |-> v]

Float(v) == [kind |-> "Float", v |-> v]

String(v) == [kind |-> "String", v |-> v]

Vector(x, y, z) == [kind |-> "Vector", x |-> x, y |-> y, z |-> z]

VectorXY(x, y) == [kind |-> "VectorXY", x |-> x, y |-> y]

Array(v) == [kind |-> "Array", v |-> v]

\* the Vector arm: x, y and z are read one after another
ParseVector(s, p, float_definition) ==
    Try(read_float(s, p, float_definition), LAMBDA x :
    Try(read_float(s, x.pos, float_definition), LAMBDA y :
    Try(read_float(s, y.pos, float_definition), LAMBDA z :
    ROk(Vector(x.val, y.val, z.val), z.pos))))

\* the VectorXY arm
ParseVectorXY(s, p, float_definition) ==
    Try(read_float(s, p, float_definition), LAMBDA x :
    Try(read_float(s, x.pos, float_definition), LAMBDA y :
    ROk(VectorXY(x.val, y.val), y.pos)))

\* the String arm: a 9-bit length, then that many bytes
ParseString(s, p) ==
    Try(ReadUInt(s, p, 9, 64), LAMBDA length :
    Try(ReadSizedString(s, length.pos, BitsVal(length.val)), LAMBDA text :
    ROk(String(text.val), text.pos)))

\* a loop bounded by the reserved capacity instead of the count
ArrayRoundsClamped(count) == Min(count, 128)

\* the number of inner values the Array arm decodes: for _ in 0..count
ArrayRounds(count) == count

\* the UnsignedInt arm: bit_count bits as a u32, widened to i64
ParseUnsignedInt(s, p, bit_count) ==
    Try(ReadUInt(s, p, bit_count, 32), LAMBDA r :
    ROk(Integer(I64FromU32(r.val)), r.pos))

\* an Int arm that reads its bits as unsigned
ParseIntZeroExtended(s, p, bit_count) ==
    Try(ReadUInt(s, p, bit_count, 32), LAMBDA r :
    ROk(Integer(I64FromU32(r.val)), r.pos))

\* the Int arm: bit_count bits as an i32, widened to i64
ParseInt(s, p, bit_count) ==
    Try(ReadSInt(s, p, bit_count, 32), LAMBDA r :
    ROk(Integer(I64FromI32(r.val)), r.pos))

RECURSIVE Parse(_, _, _)
RECURSIVE ParseArrayLoop(_, _, _, _, _)
\* n rounds of the loop of the Array arm, each decoding an inner value where
\* the one before ended and pushing it: the first n \div 2 rounds, then the
\* others (the split only keeps the evaluation shallow)
ParseArrayLoop(s, p, inner_definition, n, values) ==
    IF n = 0 THEN ROk(values, p)
    ELSE IF n = 1
    THEN Try(Parse(s, p, inner_definition), LAMBDA r :
         ROk(VecPush(values, r.val), r.pos))
    ELSE Try(ParseArrayLoop(s, p, inner_definition, n \div 2, values),
             LAMBDA first :
         ParseArrayLoop(s, first.pos, inner_definition, n - (n \div 2),
                        first.val))

\* SendPropValue::parse
Parse(s, p, definition) ==
    CASE definition.kind = "NormalVarInt" ->
            Try(read_var_int(s, p, ~definition.unsigned), LAMBDA r :
            ROk(Integer(I64FromI32(r.val)), r.pos))
      [] definition.kind = "UnsignedInt" ->
            ParseUnsignedInt(s, p, definition.bit_count)
      [] definition.kind = "Int" -> ParseInt(s, p, definition.bit_count)
      [] definition.kind = "Float" ->
            Try(read_float(s, p, definition.definition), LAMBDA r :
            ROk(Float(r.val), r.pos))
      [] definition.kind = "String" -> ParseString(s, p)
      [] definition.kind = "Vector" -> ParseVector(s, p, definition.definition)
      [] definition.kind = "VectorXY" -> ParseVectorXY(s, p, definition.definition)
      [] definition.kind = "Array" ->
            Try(ReadUInt(s, p, definition.count_bit_count, 64), LAMBDA count :
            Try(ParseArrayLoop(s, count.pos, definition.inner_definition,
                               ArrayRounds(BitsVal(count.val)),
                               VecWithCapacity(Min(BitsVal(count.val), 128))),
                LAMBDA values :
            ROk(Array(values.val.items), values.pos)))

(***************************************************************************)
(* impl PartialEq for SendPropValue                                        *)
(***************************************************************************)
\* 0.001 (the f32 nearest to it is 1/1000 + 5e-11)
Tolerance == F32(1, 1000)

\* an i64 as f64
I64AsF64(v) == F32FromInt(v.hi * 65536 + v.lo)

\* a Float arm that compares the distance of the two values
FloatEqAbsolute(value1, value2) ==
    /\ F32Less(F32Sub(value1, value2), Tolerance)
    /\ F32Less(F32Sub(value2, value1), Tolerance)

\* the Float, Float arm: value1 - value2 < 0.001
FloatEq(value1, value2) == F32Less(F32Sub(value1, value2), Tolerance)

\* Vector == Vector and VectorXY == VectorXY: every component equal as f32
VectorEq(value1, value2) ==
    /\ F32Eq(value1.x, value2.x)
    /\ F32Eq(value1.y, value2.y)
    /\ F32Eq(value1.z, value2.z)

VectorXYEq(value1, value2) ==
    F32Eq(value1.x, value2.x) /\ F32Eq(value1.y, value2.y)

\* SendPropValue::eq
RECURSIVE Eq(_, _)
Eq(self, other) ==
    CASE self.kind = "Vector" /\ other.kind = "Vector" -> VectorEq(self, other)
      [] self.kind = "VectorXY" /\ other.kind = "VectorXY" ->
            VectorXYEq(self, other)
      [] self.kind = "Integer" /\ other.kind = "Integer" -> self.v = other.v
      [] self.kind = "Float" /\ other.kind = "Float" -> FloatEq(self.v, other.v)
      [] self.kind = "String" /\ other.kind = "String" -> self.v = other.v
      [] self.kind = "Array" /\ other.kind = "Array" ->
            /\ Len(self.v) = Len(other.v)
            /\ \A i \in 1..Len(self.v) : Eq(self.v[i], other.v[i])
      [] self.kind = "Integer" /\ other.kind = "Float" ->
            F32Eq(I64AsF64(self.v), other.v)
      [] self.kind = "Float" /\ other.kind = "Integer" ->
            F32Eq(self.v, I64AsF64(other.v))
      [] self.kind = "Vector" /\ other.kind = "VectorXY" ->
            /\ F32Eq(self.x, other.x)
            /\ F32Eq(self.y, other.y)
            /\ F32Eq(self.z, F32FromInt(0))
      [] self.kind = "VectorXY" /\ other.kind = "Vector" ->
            /\ F32Eq(self.x, other.x)
            /\ F32Eq(self.y, other.y)
            /\ F32Eq(other.z, F32FromInt(0))
      [] self.kind = "Vector" /\ other.kind = "Array" /\ Len(other.v) = 3 ->
            /\ Eq(Float(self.x), other.v[1])
            /\ Eq(Float(self.y), other.v[2])
            /\ Eq(Float(self.z), other.v[3])
      [] self.kind = "Array" /\ other.kind = "Vector" /\ Len(self.v) = 3 ->
            /\ Eq(Float(other.x), self.v[1])
            /\ Eq(Float(other.y), self.v[2])
            /\ Eq(Float(other.z), self.v[3])
      [] self.kind = "VectorXY" /\ other.kind = "Array" /\ Len(other.v) = 2 ->
            /\ Eq(Float(self.x), other.v[1])
            /\ Eq(Float(self.y), other.v[2])
      [] self.kind = "Array" /\ other.kind = "VectorXY" /\ Len(self.v) = 2 ->
            /\ Eq(Float(other.x), self.v[1])
            /\ Eq(Float(other.y), self.v[2])
      [] OTHER -> FALSE

(***************************************************************************)
(* SendPropIdentifier::new.  A u64 is its eight bytes, the lowest first.   *)
(***************************************************************************)
\* FnvHasher::default(): the offset basis 0xcbf29ce484222325
FnvOffsetBasis == <<37, 35, 34, 132, 228, 156, 242, 203>>

XorByte(a, b) ==
    BitsVal(Vec([i \in 1..8 |->
                    IF NatBits(a, 8)[i] = NatBits(b, 8)[i] THEN 0 ELSE 1], 8))

\* the bytes of a sum of columns, the carries moved up and the last dropped
RECURSIVE CarryUp(_, _, _, _)
CarryUp(columns, i, carry, acc) ==
    IF i > Len(columns) THEN acc
    ELSE CarryUp(columns, i + 1, (columns[i] + carry) \div 256,
                 Append(acc, (columns[i] + carry) % 256))

\* hash.wrapping_mul(0x100000001b3): the prime is 2^40 + 435
MulFnvPrime(hash) ==
    CarryUp(Vec([i \in 1..8 |->
                    hash[i] * 435 + (IF i > 5 THEN hash[i - 5] ELSE 0)], 8),
            1, 0, <<>>)

\* FnvHasher::write: for each byte, hash ^= byte, then hash *= prime
RECURSIVE FnvWrite(_, _)
FnvWrite(hash, bytes) ==
    IF Len(bytes) = 0 THEN hash
    ELSE FnvWrite(MulFnvPrime([hash EXCEPT ![1] = XorByte(hash[1], bytes[1])]),
                  Tail(bytes))

\* <str as Hash>::hash: the bytes of the text, then the byte 0xff
HashStr(hasher, text) == FnvWrite(FnvWrite(hasher, text), <<255>>)

\* an identifier whose hasher is fed prop before table
SendPropIdentifierNew_PropFirst(table, prop) ==
    HashStr(HashStr(FnvOffsetBasis, prop), table)

\* SendPropIdentifier::new
SendPropIdentifierNew(table, prop) ==
    HashStr(HashStr(FnvOffsetBasis, table), prop)

(***************************************************************************)
(* Specification SpecVarInt: read_var_int on a stream of bytes.            *)
(*                                                                         *)
(* The streams are the standard varints of the zig-zag encodings of the    *)
(* integers around every power of two of the i32 range, and every byte     *)
(* sequence of up to MaxVarIntLen bytes over VarIntByteSet.                *)
(***************************************************************************)
\* zig-zag encoding of an i32: (n << 1) ^ (n >> 31)
ZigZagEncode(n) == Xor32(Shl32(I32Bits(n), 1), Sar32(I32Bits(n), 31))

\* the standard varint of a u32: 7-bit groups, least significant first, the
\* high bit of a byte set when another byte follows
RECURSIVE WriteVarInt(_)
WriteVarInt(w) ==
    LET rest == Shr32(w, 7)
        low7 == BitsVal(SubSeq(w, 1, 7))
    IN  IF rest = Zero32 THEN <<low7>>
        ELSE <<low7 + 128>> \o WriteVarInt(rest)

TestInts ==
    {0, 75, -75, 2147483647, (-1073741824) - 1073741824}
    \cup UNION {{Pow2(k), Pow2(k) - 1, -Pow2(k), -Pow2(k) - 1} : k \in 0..30}

MaxVarIntLen == 6

VarIntByteSet == {0, 127, 128, 255}

RECURSIVE ByteSeqs(_, _)
ByteSeqs(bytes, n) ==
    IF n = 0 THEN {<<>>}
    ELSE LET shorter == ByteSeqs(bytes, n - 1)
         IN  shorter \cup {Append(q, b) : q \in {x \in shorter : Len(x) = n - 1},
                                           b \in bytes}

VarIntInit ==
    /\ \/ \E n \in TestInts :
             /\ stream = BytesToBits(WriteVarInt(ZigZagEncode(n)))
             /\ arg = [encoded |-> Some(n)]
       \/ \E bytes \in ByteSeqs(VarIntByteSet, MaxVarIntLen) :
             /\ stream = BytesToBits(bytes)
             /\ arg = [encoded |-> None]
    /\ pos = 0
    /\ start = 0
    /\ props = <<>>
    /\ defs = <<>>
    /\ op = "init"
    /\ res = Ok(0)

ReadVarInt(signed) ==
    /\ op = "init"
    /\ LET r == read_var_int(stream, pos, signed)
       IN  /\ res' = IF r.ok THEN Ok(I32Val(r.val)) ELSE Err(r.err)
           /\ pos' = r.pos
    /\ start' = pos
    /\ op' = "read_var_int"
    /\ arg' = [encoded |-> arg.encoded, signed |-> signed]
    /\ UNCHANGED <<stream, props, defs>>

VarIntNext == \E signed \in BOOLEAN : ReadVarInt(signed)

SpecVarInt == VarIntInit /\ [][VarIntNext]_vars

\* the bytes of the stream, and whether byte k has its high bit set
StreamLen == Len(stream) \div 8

Continues(k) == stream[8 * k] = 1

\* the byte at which a varint that starts at bit 0 stops: the first of the
\* first five bytes whose high bit is clear, the fifth when there is none
StoppingByte ==
    LET clear == {k \in 1..5 : k <= StreamLen /\ ~Continues(k)}
    IN  IF clear = {} THEN 5 ELSE CHOOSE k \in clear : \A j \in clear : k <= j

\* C15: read_var_int always terminates after 1 to 5 bytes: it stops after
\* the first byte whose high bit is clear, and after the fifth byte even when
\* its high bit is set; on a stream that ends before the stopping byte it
\* returns a read error.
C15_VarIntLength ==
    op = "read_var_int"
        => /\ StoppingByte \in 1..5
           /\ IF StoppingByte <= StreamLen
              THEN /\ res.ok
                   /\ pos = start + 8 * StoppingByte
                   /\ \A k \in 1..(StoppingByte - 1) : Continues(k)
                   /\ StoppingByte < 5 => ~Continues(StoppingByte)
              ELSE ~res.ok

\* C15 witness: five bytes with the high bit set, and a sixth after them,
\* have been read as a varint that stopped after the fifth
C15_Witness ==
    /\ op = "read_var_int"
    /\ StreamLen = 6
    /\ \A k \in 1..6 : Continues(k)
    /\ res.ok
    /\ pos = 40

\* C1: for every 32-bit integer n, reading the standard varint of the zig-zag
\* encoding of n with signed = true succeeds and returns n.
C1_SignedRoundTrip ==
    (op = "read_var_int" /\ arg.signed /\ IsSome(arg.encoded))
        => (res.ok /\ res.val = Unwrap(arg.encoded))

(***************************************************************************)
(* Specification SpecRaw: records are read from a table stream one after   *)
(* another, an array record is bound to its element record, and records    *)
(* are refined.                                                            *)
(*                                                                         *)
(* The streams hold one wire record of every type with every subset of     *)
(* RawFlagSet, or an element record followed by a second record.           *)
(***************************************************************************)
\* the bytes of a string followed by its NUL, as bits
CStringBits(bytes) == BytesToBits(Append(bytes, 0))

FlagBits(flags) ==
    Vec([i \in 1..16 |-> IF SendPropFlag[i] \in flags THEN 1 ELSE 0], 16)

\* the bit patterns of the f32 values 0.0 and 1.0
F32Zero == [bits |-> Zero32]

F32One == [bits |-> Vec([i \in 1..32 |-> IF i \in 24..30 THEN 1 ELSE 0], 32)]

\* a record as the table stream carries it
WireProp(w) ==
    NatBits(w.type, 5) \o CStringBits(w.name) \o FlagBits(w.flags)
    \o (IF "Exclude" \in w.flags \/ w.type = 6 THEN CStringBits(w.table)
        ELSE IF w.type = 5 THEN NatBits(w.count, 10)
        ELSE w.low.bits \o w.high.bits \o NatBits(w.bits, 7))

RawFlagSet ==
    {"Unsigned", "NoScale", "NormalVarInt", "Exclude", "ChangesOften", "Coord"}

WireProps ==
    [type : 0..8, name : {<<112>>}, flags : SUBSET RawFlagSet, table : {<<84>>},
     count : {0, 5}, low : {F32Zero}, high : {F32One}, bits : {8}]

\* element records and the records that follow them
WireElements ==
    {w \in WireProps :
        /\ w.count = 5
        /\ w.type \in {0, 1, 5, 6}
        /\ w.flags \in {{}, {"Unsigned"}, {"Exclude"}}}

WireFollowers ==
    {w \in WireProps :
        /\ w.type \in {0, 5}
        /\ w.flags \in {{}, {"ChangesOften"}, {"Exclude"}}}

OwnerTable == <<68, 84>>

RawInit ==
    /\ \/ \E w \in WireProps : stream = WireProp(w)
       \/ \E e \in WireElements, w \in WireFollowers :
             stream = WireProp(e) \o WireProp(w)
    /\ pos = 0
    /\ start = 0
    /\ props = <<>>
    /\ defs = <<>>
    /\ op = "init"
    /\ arg = None
    /\ res = Ok(0)

\* the table parser reads the next record of the stream
ReadProp ==
    /\ op \in {"init", "read"}
    /\ res.ok
    /\ pos < Len(stream)
    /\ LET r == RawRead(stream, pos, OwnerTable)
       IN  /\ res' = IF r.ok THEN Ok(r.val) ELSE Err(r.err)
           /\ props' = IF r.ok THEN Append(props, r.val) ELSE props
           /\ pos' = r.pos
    /\ start' = pos
    /\ op' = "read"
    /\ arg' = None
    /\ UNCHANGED <<stream, defs>>

\* the last record read adopts the record before it as its element record
WithArrayProperty ==
    /\ op = "read"
    /\ res.ok
    /\ Len(props) >= 2
    /\ LET n == Len(props)
           bound == with_array_property(props[n], props[n - 1])
       IN  /\ props' = [props EXCEPT ![n] = bound]
           /\ arg' = Some(props[n])
           /\ res' = Ok(bound)
    /\ op' = "with_array_property"
    /\ UNCHANGED <<stream, pos, start, defs>>

\* a record of the table is refined
Refine ==
    /\ op \in {"read", "with_array_property"}
    /\ \E i \in 1..Len(props) :
          /\ arg' = Some(props[i])
          /\ res' = TryFrom(props[i])
    /\ op' = "try_from"
    /\ UNCHANGED <<stream, pos, start, props, defs>>

RawNext == ReadProp \/ WithArrayProperty \/ Refine

SpecRaw == RawInit /\ [][RawNext]_vars

\* C2: try_from returns InvalidPropType for every record whose prop_type is
\* DataTable or NumSendPropTypes and for every record whose flags contain
\* Exclude, whatever its prop_type.
C2_ExcludeIsInvalidPropType ==
    (/\ op = "try_from"
     /\ \/ Unwrap(arg).prop_type \in {"DataTable", "NumSendPropTypes"}
        \/ "Exclude" \in Unwrap(arg).flags)
        => res = Err("InvalidPropType")

\* C3: every record read whose prop_type is DataTable or whose flags contain
\* Exclude has table_name = Some and low_value, high_value, bit_count and
\* element_count all None.
C3_TableRecordHasNoNumericFields ==
    (/\ op = "read"
     /\ res.ok
     /\ res.val.prop_type = "DataTable" \/ "Exclude" \in res.val.flags)
        => /\ IsSome(res.val.table_name)
           /\ res.val.low_value = None
           /\ res.val.high_value = None
           /\ res.val.bit_count = None
           /\ res.val.element_count = None

\* C4 as stated: every Array record read has element_count = Some, for every
\* flag combination, and array_property = Some after with_array_property.
C4_ArrayHasElementCount ==
    /\ (op = "read" /\ res.ok /\ res.val.prop_type = "Array")
          => IsSome(res.val.element_count)
    /\ (op = "with_array_property" /\ Unwrap(arg).prop_type = "Array")
          => IsSome(res.val.array_property)

\* C4 as amended: every Array record read whose flags do not contain Exclude
\* has element_count = Some (with Exclude it has table_name = Some and
\* element_count = None); after with_array_property any record has
\* array_property = Some of the record given, its other fields unchanged.
C4_ArrayWithoutExcludeHasElementCount ==
    /\ (op = "read" /\ res.ok /\ res.val.prop_type = "Array")
          => IF "Exclude" \in res.val.flags
             THEN res.val.element_count = None /\ IsSome(res.val.table_name)
             ELSE IsSome(res.val.element_count)
    /\ op = "with_array_property"
          => /\ res.val.array_property = Some(props[Len(props) - 1])
             /\ res.val.element_count = Unwrap(arg).element_count
             /\ res.val.prop_type = Unwrap(arg).prop_type
             /\ res.val.flags = Unwrap(arg).flags

\* an Array record without Exclude that was read with its element count and
\* then bound to the record before it
C4_Witness ==
    /\ op = "with_array_property"
    /\ res.val.prop_type = "Array"
    /\ "Exclude" \notin res.val.flags
    /\ res.val.element_count = Some(5)
    /\ IsSome(res.val.array_property)
    /\ Unwrap(res.val.array_property).prop_type = "Int"

(***************************************************************************)
(* Specification SpecFloat: FloatDefinition::new on every subset of        *)
(* FloatFlagSet and every presence of bit_count, high and low.             *)
(***************************************************************************)
FloatFlagSet ==
    {"Coord", "CoordMP", "CoordMPLowPrecision", "CoordMPIntegral", "NoScale",
     "NormalVarInt", "Unsigned", "RoundDown"}

FloatInit ==
    /\ \E flags \in SUBSET FloatFlagSet,
          bit_count \in {None, Some(8)},
          high \in {None, Some(F32One)},
          low \in {None, Some(F32Zero)} :
          arg = [flags |-> flags, bit_count |-> bit_count, high |-> high,
                 low |-> low]
    /\ stream = <<>>
    /\ pos = 0
    /\ start = 0
    /\ props = <<>>
    /\ defs = <<>>
    /\ op = "init"
    /\ res = Ok(0)

NewFloatDefinition ==
    /\ op = "init"
    /\ res' = FloatDefinitionNew(arg.flags, arg.bit_count, arg.high, arg.low)
    /\ op' = "float_definition_new"
    /\ UNCHANGED <<stream, pos, start, props, defs, arg>>

FloatNext == NewFloatDefinition

SpecFloat == FloatInit /\ [][FloatNext]_vars

\* the flags FloatDefinition::new looks at, in the order of precedence, and
\* the variant each selects
FloatPrecedence ==
    <<"Coord", "CoordMP", "CoordMPLowPrecision", "CoordMPIntegral", "NoScale",
      "NormalVarInt">>

FloatVariant ==
    <<"Coord", "CoordMP", "CoordMPLowPrecision", "CoordMPIntegral",
      "FloatNoScale", "NormalVarFloat">>

\* C6: FloatDefinition::new returns the variant of the first flag set in the
\* order Coord, CoordMP, CoordMPLowPrecision, CoordMPIntegral, NoScale,
\* NormalVarInt, whatever the numeric fields; with none of them set it returns
\* Scaled when bit_count, high and low are all present and UnsizedFloat
\* otherwise.
C6_FloatDefinitionPrecedence ==
    op = "float_definition_new" =>
        LET set == {i \in 1..Len(FloatPrecedence) : FloatPrecedence[i] \in arg.flags}
        IN  IF set # {}
            THEN /\ res.ok
                 /\ \E i \in set :
                       /\ \A j \in set : i <= j
                       /\ res.val = [kind |-> FloatVariant[i]]
            ELSE IF IsSome(arg.bit_count) /\ IsSome(arg.high) /\ IsSome(arg.low)
            THEN /\ res.ok
                 /\ res.val.kind = "Scaled"
                 /\ res.val.bit_count = Unwrap(arg.bit_count)
                 /\ res.val.high = Unwrap(arg.high)
                 /\ res.val.low = Unwrap(arg.low)
            ELSE res = Err("UnsizedFloat")

\* a flag set with several of the six flags and no numeric field, decided by
\* the first of them in the order
C6_Witness ==
    /\ op = "float_definition_new"
    /\ arg.flags = {"CoordMPLowPrecision", "NoScale", "NormalVarInt"}
    /\ arg.bit_count = None
    /\ res = Ok([kind |-> "CoordMPLowPrecision"])

(***************************************************************************)
(* Specification SpecParse: the values of a list of parse definitions are  *)
(* decoded from one stream, one after another.                             *)
(*                                                                         *)
(* The streams are StreamBytes bytes long, each a pattern of bytes         *)
(* repeated; the lists hold one definition of ParseDefs or two of SeqDefs. *)
(***************************************************************************)
StreamBytes == 18

Fill(pattern) ==
    BytesToBits(Vec([i \in 1..StreamBytes |->
                        pattern[((i - 1) % Len(pattern)) + 1]], StreamBytes))

StreamPatterns ==
    {<<0>>, <<255>>, <<85>>, <<170>>, <<129, 255>>, <<150, 1>>, <<2, 130, 1>>,
     <<3, 128, 7>>, <<255, 255, 255, 255, 127, 64>>, <<1, 2, 0, 200>>}

IntDef(kind, bit_count) ==
    [kind |-> kind, changes_often |-> FALSE, bit_count |-> bit_count]

VarIntDef(unsigned) ==
    [kind |-> "NormalVarInt", changes_often |-> FALSE, unsigned |-> unsigned]

FloatDef(kind, fd) == [kind |-> kind, changes_often |-> FALSE, definition |-> fd]

StringDef == [kind |-> "String", changes_often |-> FALSE]

ArrayDef(c, inner) ==
    [kind |-> "Array", changes_often |-> TRUE, inner_definition |-> inner,
     count_bit_count |-> c]

ScaledDef(b) ==
    [kind |-> "Scaled", bit_count |-> b, high |-> F32One, low |-> F32Zero]

\* the bit pattern of the f32 value -1.0
F32MinusOne == [bits |-> [F32One.bits EXCEPT ![32] = 1]]

\* the Scaled definitions of every width a 7-bit bit_count field can give up
\* to 33, between 0.0 and 1.0 and between -1.0 and 1.0
ScaledDefs ==
    {[kind |-> "Scaled", bit_count |-> b, high |-> F32One, low |-> low] :
        b \in 0..33, low \in {F32Zero, F32MinusOne}}

FloatDefs ==
    {[kind |-> k] : k \in {"Coord", "CoordMP", "CoordMPLowPrecision",
                           "CoordMPIntegral", "FloatNoScale", "NormalVarFloat"}}
    \cup {ScaledDef(8), ScaledDef(20)}

InnerDefs ==
    {IntDef("UnsignedInt", 8), IntDef("UnsignedInt", 1), IntDef("Int", 3),
     VarIntDef(FALSE), FloatDef("Float", [kind |-> "Coord"]), StringDef,
     ArrayDef(2, IntDef("UnsignedInt", 1))}

ParseDefs ==
    {IntDef(k, b) : k \in {"Int", "UnsignedInt"}, b \in 0..33}
    \cup {VarIntDef(u) : u \in BOOLEAN}
    \cup {FloatDef(k, fd) : k \in {"Float", "Vector", "VectorXY"}, fd \in FloatDefs}
    \cup {FloatDef("Float", fd) : fd \in ScaledDefs}
    \cup {StringDef}
    \cup {ArrayDef(c, inner) : c \in {2, 8}, inner \in InnerDefs}

SeqDefs ==
    {IntDef("Int", 3), IntDef("UnsignedInt", 8), VarIntDef(FALSE),
     FloatDef("Float", [kind |-> "Coord"]),
     FloatDef("Float", [kind |-> "CoordMPIntegral"]), StringDef,
     FloatDef("Vector", [kind |-> "NormalVarFloat"]),
     ArrayDef(2, IntDef("UnsignedInt", 8))}

ParseInit ==
    /\ \E pattern \in StreamPatterns : stream = Fill(pattern)
    /\ \/ \E d \in ParseDefs : defs = <<d>>
       \/ \E d1 \in SeqDefs, d2 \in SeqDefs : defs = <<d1, d2>>
    /\ pos = 0
    /\ start = 0
    /\ props = <<>>
    /\ op = "init"
    /\ arg = None
    /\ res = Ok(0)

\* the next value of the list is decoded where the cursor stands
ParseProp ==
    /\ res.ok
    /\ Len(props) < Len(defs)
    /\ \E r \in {Parse(stream, pos, defs[Len(props) + 1])} :
           /\ res' = IF r.ok THEN Ok(r.val) ELSE Err(r.err)
           /\ props' = IF r.ok THEN Append(props, r.val) ELSE props
           /\ pos' = r.pos
    /\ arg' = Some(defs[Len(props) + 1])
    /\ start' = pos
    /\ op' = "parse"
    /\ UNCHANGED <<stream, defs>>

ParseNext == ParseProp

SpecParse == ParseInit /\ [][ParseNext]_vars

\* the property that ParseProp has just decoded, and the bits it started at
Decoded == op = "parse" /\ res.ok

\* 2^k - 1 and -2^k as i64, for k in 0..32
I64Pow2Minus1(k) ==
    IF k < 16 THEN I64(0, Pow2(k) - 1) ELSE I64(Pow2(k - 16) - 1, 65535)

I64NegPow2(k) ==
    IF k < 16 THEN I64(-1, 65536 - Pow2(k)) ELSE I64(-Pow2(k - 16), 0)

\* the integer that the b bits at p stand for: the unsigned number of the
\* bits and, for a signed field whose bit b - 1 is set, that number - 2^b
FieldValue(s, p, b, signed) ==
    LET lo == BitsVal(SubSeq(s, p + 1, p + Min(b, 16)))
        hi == IF b > 16 THEN BitsVal(SubSeq(s, p + 17, p + b)) ELSE 0
    IN  IF signed /\ s[p + b] = 1
        THEN IF b < 16 THEN I64(-1, 65536 - Pow2(b) + lo)
             ELSE I64(hi - Pow2(b - 16), lo)
        ELSE I64(hi, lo)

\* C7: for 1 <= b <= 32, a successful parse of Int{b} yields Integer(v) with
\* -2^(b-1) <= v <= 2^(b-1) - 1, v being the b bits sign-extended from bit
\* b - 1, and of UnsignedInt{b} yields Integer(v) with 0 <= v <= 2^b - 1.
C7_IntegerRange ==
    (/\ Decoded
     /\ Unwrap(arg).kind \in {"Int", "UnsignedInt"}
     /\ Unwrap(arg).bit_count \in 1..32)
        => LET b == Unwrap(arg).bit_count
               signed == Unwrap(arg).kind = "Int"
           IN  /\ res.val.kind = "Integer"
               /\ res.val.v = FieldValue(stream, start, b, signed)
               /\ IF signed
                  THEN /\ I64Leq(I64NegPow2(b - 1), res.val.v)
                       /\ I64Leq(res.val.v, I64Pow2Minus1(b - 1))
                  ELSE /\ I64Leq(I64(0, 0), res.val.v)
                       /\ I64Leq(res.val.v, I64Pow2Minus1(b))

\* C7 witness: a 7-bit Int whose sign bit is set has been decoded as a
\* negative number
C7_Witness ==
    /\ Decoded
    /\ arg = Some(IntDef("Int", 7))
    /\ stream[start + 7] = 1
    /\ res.val.v.hi < 0

\* bit i of the stream (from 1), 0 past its end
Bit(s, i) == IF i <= Len(s) THEN s[i] ELSE 0

\* the number held by the n bits after bit p
Field(s, p, n) == BitsVal(Vec([i \in 1..n |-> Bit(s, p + i)], n))

\* the width of a float on the wire, from the flag bits it starts with
FloatWidth(s, p, fd) ==
    CASE fd.kind = "Coord" ->
            2 + (IF Bit(s, p + 1) = 1 \/ Bit(s, p + 2) = 1
                 THEN 1 + 14 * Bit(s, p + 1) + 5 * Bit(s, p + 2) ELSE 0)
      [] fd.kind \in {"CoordMP", "CoordMPLowPrecision"} ->
            3 + (IF Bit(s, p + 2) = 1
                 THEN (IF Bit(s, p + 1) = 1 THEN 11 ELSE 14) ELSE 0)
              + (IF fd.kind = "CoordMP" THEN 5 ELSE 3)
      [] fd.kind = "CoordMPIntegral" ->
            2 + (IF Bit(s, p + 2) = 1
                 THEN 1 + (IF Bit(s, p + 1) = 1 THEN 11 ELSE 14) ELSE 0)
      [] fd.kind = "FloatNoScale" -> 32
      [] fd.kind = "NormalVarFloat" -> 12
      [] fd.kind = "Scaled" -> fd.bit_count

\* the number of bytes of the varint at p: up to the first byte whose top
\* bit is clear, five at most
VarIntBytes(s, p) ==
    LET ends == {k \in 1..5 : Bit(s, p + 8 * k) = 0}
    IN  IF ends = {} THEN 5 ELSE CHOOSE k \in ends : \A j \in ends : k <= j

\* the cursor after the value of a definition that starts at p, by the
\* widths prescribed for the bits found there
RECURSIVE PrescribedEnd(_, _, _)
RECURSIVE PrescribedEndOfRun(_, _, _, _)
PrescribedEnd(s, p, d) ==
    CASE d.kind \in {"Int", "UnsignedInt"} -> p + d.bit_count
      [] d.kind = "NormalVarInt" -> p + 8 * VarIntBytes(s, p)
      [] d.kind = "String" -> p + 9 + 8 * Field(s, p, 9)
      [] d.kind = "Float" -> p + FloatWidth(s, p, d.definition)
      [] d.kind = "VectorXY" ->
            PrescribedEndOfRun(s, p, FloatDef("Float", d.definition), 2)
      [] d.kind = "Vector" ->
            PrescribedEndOfRun(s, p, FloatDef("Float", d.definition), 3)
      [] d.kind = "Array" ->
            PrescribedEndOfRun(s, p + d.count_bit_count, d.inner_definition,
                               Field(s, p, d.count_bit_count))

\* the cursor after n values of one definition, one after another; a run
\* that has left the stream is not followed further
PrescribedEndOfRun(s, p, d, n) ==
    IF n = 0 THEN p
    ELSE IF n = 1 THEN PrescribedEnd(s, p, d)
    ELSE LET mid == PrescribedEndOfRun(s, p, d, n \div 2)
         IN  IF mid > Len(s) THEN mid
             ELSE PrescribedEndOfRun(s, mid, d, n - (n \div 2))

\* the cursor after the first n properties of a list decoded from bit 0
RECURSIVE PrescribedEndOfList(_, _, _)
PrescribedEndOfList(s, ds, n) ==
    IF n = 0 THEN 0
    ELSE PrescribedEnd(s, PrescribedEndOfList(s, ds, n - 1), ds[n])

\* C8: a successful parse only moves the cursor forward and consumes exactly
\* the bits its definition prescribes for the bits read, so each property of
\* a list is read from where the one before it ended.
C8_ConsumesPrescribedBits ==
    Decoded
        => /\ pos >= start
           /\ pos = PrescribedEnd(stream, start, Unwrap(arg))
           /\ start = PrescribedEndOfList(stream, defs, Len(props) - 1)
           /\ pos = PrescribedEndOfList(stream, defs, Len(props))

\* C8 witness: the second property of a list has been decoded, from the bit
\* where the first one ended, and both consumed bits
C8_Witness ==
    /\ Decoded
    /\ Len(props) = 2
    /\ start > 0
    /\ pos > start

\* the i-th inner value of the array that starts at p
ArrayElement(s, p, d, i) ==
    Parse(s, PrescribedEndOfRun(s, p + d.count_bit_count, d.inner_definition,
                                i - 1),
          d.inner_definition)

\* C9: a successful parse of Array{c, inner} returns an Array whose length is
\* the c-bit unsigned count read first, also when the count exceeds 128, and
\* whose i-th element is the i-th inner value decoded from the stream in order.
C9_ArrayLengthIsCount ==
    (Decoded /\ Unwrap(arg).kind = "Array")
        => LET d == Unwrap(arg)
               count == Field(stream, start, d.count_bit_count)
           IN  /\ res.val.kind = "Array"
               /\ Len(res.val.v) = count
               /\ \A i \in 1..count :
                      /\ ArrayElement(stream, start, d, i).ok
                      /\ res.val.v[i] = ArrayElement(stream, start, d, i).val

\* C9 witness: an array of more than 128 elements has been decoded
C9_Witness ==
    /\ Decoded
    /\ res.val.kind = "Array"
    /\ Len(res.val.v) > 128

(***************************************************************************)
(* Specification SpecEq: the lenient equality on a pair of values.         *)
(*                                                                         *)
(* The values are the members of EqValues; their floats are 0, 1, 1/1024   *)
(* (below the tolerance), 1/512 (above it) and NaN, whose differences are  *)
(* exact in f32.                                                           *)
(***************************************************************************)
EqValues ==
    <<Integer(I64FromInt(0)), Integer(I64FromInt(1)),
      Float(F32FromInt(0)), Float(F32FromInt(1)), Float(F32(1, 1024)),
      Float(F32(1, 512)), Float(NaN),
      String(<<97>>), String(<<>>),
      Vector(F32FromInt(0), F32FromInt(1), F32FromInt(0)),
      Vector(F32FromInt(1), F32FromInt(1), F32FromInt(0)),
      Vector(F32FromInt(1), F32FromInt(1), F32FromInt(1)),
      Vector(NaN, F32FromInt(1), F32FromInt(0)),
      VectorXY(F32FromInt(0), F32FromInt(1)),
      VectorXY(F32FromInt(1), F32FromInt(1)),
      Array(<<>>),
      Array(<<Float(F32FromInt(1)), Float(F32FromInt(1))>>),
      Array(<<Float(F32FromInt(0)), Float(F32FromInt(1))>>),
      Array(<<Integer(I64FromInt(1)), Integer(I64FromInt(1))>>),
      Array(<<Float(F32FromInt(1)), Float(F32FromInt(1)),
              Float(F32FromInt(0))>>),
      Array(<<Float(F32FromInt(1)), Float(F32FromInt(1)),
              Float(F32FromInt(1))>>),
      Array(<<Integer(I64FromInt(1)), Integer(I64FromInt(1)),
              Integer(I64FromInt(0))>>)>>

EqInit ==
    /\ \E i \in 1..Len(EqValues), j \in 1..Len(EqValues) :
           arg = [a |-> EqValues[i], b |-> EqValues[j]]
    /\ stream = <<>>
    /\ pos = 0
    /\ start = 0
    /\ props = <<>>
    /\ defs = <<>>
    /\ op = "init"
    /\ res = Ok(0)

\* a == b, b == a and a == a are evaluated
Compare ==
    /\ op = "init"
    /\ op' = "eq"
    /\ res' = [ab |-> Eq(arg.a, arg.b), ba |-> Eq(arg.b, arg.a),
               aa |-> Eq(arg.a, arg.a)]
    /\ UNCHANGED <<stream, pos, start, props, defs, arg>>

EqNext == Compare

SpecEq == EqInit /\ [][EqNext]_vars

\* a value that holds a NaN
RECURSIVE HasNaN(_)
HasNaN(a) ==
    CASE a.kind = "Float" -> IsNaN(a.v)
      [] a.kind = "Vector" -> IsNaN(a.x) \/ IsNaN(a.y) \/ IsNaN(a.z)
      [] a.kind = "VectorXY" -> IsNaN(a.x) \/ IsNaN(a.y)
      [] a.kind = "Array" -> \E i \in 1..Len(a.v) : HasNaN(a.v[i])
      [] OTHER -> FALSE

\* a pair whose comparison compares a Float of a with a Float of b
RECURSIVE ComparesFloats(_, _)
ComparesFloats(a, b) ==
    \/ a.kind = "Float" /\ b.kind = "Float"
    \/ /\ a.kind = "Array"
       /\ b.kind = "Array"
       /\ Len(a.v) = Len(b.v)
       /\ \E i \in 1..Len(a.v) : ComparesFloats(a.v[i], b.v[i])

MaxNameLen == 2

RECURSIVE Names(_)
Names(n) ==
    IF n = 0 THEN {<<>>}
    ELSE Names(n - 1)
         \cup {Append(w, c) : w \in Names(n - 1), c \in {97, 98, 99}}

HashInit ==
    /\ \E table \in Names(MaxNameLen), prop \in Names(MaxNameLen) :
         \E k \in 0..Len(table \o prop) :
            arg = [table |-> table, prop |-> prop,
                   table2 |-> SubSeq(table \o prop, 1, k),
                   prop2 |-> SubSeq(table \o prop, k + 1, Len(table \o prop))]
    /\ stream = <<>>
    /\ pos = 0
    /\ start = 0
    /\ props = <<>>
    /\ defs = <<>>
    /\ op = "init"
    /\ res = Ok(0)

\* the identifiers of the two pairs are computed
NewIdentifiers ==
    /\ op = "init"
    /\ op' = "new"
    /\ res' = [id |-> SendPropIdentifierNew(arg.table, arg.prop),
               id2 |-> SendPropIdentifierNew(arg.table2, arg.prop2)]
    /\ UNCHANGED <<stream, pos, start, props, defs, arg>>

HashNext == NewIdentifiers

SpecHash == HashInit /\ [][HashNext]_vars

\* FNV-1a 64 of a byte string
Fnv1a(bytes) == FnvWrite(FnvOffsetBasis, bytes)

Wire(type, flags, count) ==
    [type |-> type, name |-> <<112>>, flags |-> flags, table |-> <<84>>,
     count |-> count, low |-> F32Zero, high |-> F32One, bits |-> 8]

\* the record that RawSendPropDefinition::read returns for a wire record
Record(w) == RawRead(WireProp(w), 0, OwnerTable).val

ElementCounts == 0..(Pow2(10) - 1)

\* element records: Int, Float (Scaled), String, Float with Exclude (no
\* bit_count), DataTable, Array with Exclude (no count), Array (unbound)
RefineElements ==
    <<Record(Wire(0, {}, 0)), Record(Wire(1, {}, 0)), Record(Wire(4, {}, 0)),
      Record(Wire(1, {"Exclude"}, 0)), Record(Wire(6, {}, 0)),
      Record(Wire(5, {"Exclude"}, 3)), Record(Wire(5, {}, 3)),
      with_array_property(Record(Wire(5, {}, 3)), Record(Wire(0, {}, 0))),
      with_array_property(Record(Wire(5, {}, 3)),
                          Record(Wire(1, {"Exclude"}, 0)))>>

RefineInit ==
    /\ \/ \E count \in ElementCounts :
             arg = Some(with_array_property(Record(Wire(5, {}, count)),
                                            RefineElements[1]))
       \/ \E count \in {0, 1, 5, 1023},
             flags \in {{}, {"ChangesOften"}, {"Exclude"}},
             i \in 0..Len(RefineElements) :
             arg = Some(IF i = 0 THEN Record(Wire(5, flags, count))
                        ELSE with_array_property(Record(Wire(5, flags, count)),
                                                 RefineElements[i]))
    /\ stream = <<>>
    /\ pos = 0
    /\ start = 0
    /\ props = <<>>
    /\ defs = <<>>
    /\ op = "init"
    /\ res = Ok(0)

\* the record is refined
RefineRecord ==
    /\ op = "init"
    /\ op' = "try_from"
    /\ res' = TryFrom(Unwrap(arg))
    /\ UNCHANGED <<stream, pos, start, props, defs, arg>>

RefineNext == RefineRecord

SpecRefine == RefineInit /\ [][RefineNext]_vars

\* the least width of at least one bit whose numbers reach n
WidthOf(n) == CHOOSE w \in 1..31 : n < Pow2(w) /\ (w > 1 => n >= Pow2(w - 1))

\* C11: every Array record with element_count = E (0 <= E <= 1023) that
\* refines successfully gets count_bit_count = floor(log2(E)) + 1 (one bit
\* for E = 0), which is wide enough for every count from 0 to E.
C11_CountBitCount ==
    (op = "try_from" /\ res.ok /\ res.val.kind = "Array")
        => LET E == Unwrap(Unwrap(arg).element_count)
           IN  /\ E \in ElementCounts
               /\ res.val.count_bit_count = WidthOf(E)
               /\ \A count \in 0..E : count < Pow2(res.val.count_bit_count)

\* C11 witness: an Array record of 1023 elements has been refined to a
\* definition with a 10-bit count
C11_Witness ==
    /\ op = "try_from"
    /\ res.ok
    /\ res.val.kind = "Array"
    /\ Unwrap(arg).element_count = Some(1023)
    /\ res.val.count_bit_count = 10

\* C13: refining an Array record fails with UnsizedArray when element_count
\* is None (whatever array_property is), with UntypedArray when element_count
\* is Some and array_property is None, and otherwise it is Array wrapping the
\* refinement of the element record, or that refinement's own error.
C13_ArrayRefinement ==
    (op = "try_from" /\ Unwrap(arg).prop_type = "Array")
        => LET definition == Unwrap(arg)
           IN  IF definition.element_count = None
               THEN res = Err("UnsizedArray")
               ELSE IF definition.array_property = None
               THEN res = Err("UntypedArray")
               ELSE LET element == TryFrom(Unwrap(definition.array_property))
                    IN  IF element.ok
                        THEN /\ res.ok
                             /\ res.val.kind = "Array"
                             /\ res.val.inner_definition = element.val
                        ELSE res = element

\* C13 witness: an Array record with neither count nor element record has
\* failed with UnsizedArray
C13_Witness ==
    /\ op = "try_from"
    /\ Unwrap(arg).prop_type = "Array"
    /\ Unwrap(arg).element_count = None
    /\ Unwrap(arg).array_property = None
    /\ res = Err("UnsizedArray")

\* C12: for every Scaled{b, low, high} with 1 <= b <= 32 whose read succeeds,
\* read_float returns low + (high - low) * raw / (2^b - 1) in f32 arithmetic:
\* raw = 0 yields low and the all-ones code yields high.
C12_ScaledFormula ==
    (/\ Decoded
     /\ Unwrap(arg).kind = "Float"
     /\ Unwrap(arg).definition.kind = "Scaled"
     /\ Unwrap(arg).definition.bit_count \in 1..32)
        => LET fd == Unwrap(arg).definition
               raw == Vec([i \in 1..32 |->
                             IF i <= fd.bit_count THEN stream[start + i] ELSE 0],
                          32)
               low == SingleFromBits(fd.low.bits)
               high == SingleFromBits(fd.high.bits)
           IN  /\ res.val.v
                     = ScaledValue(raw, ScaledDenominator_Unwrapped(fd.bit_count),
                                   low, high)
               /\ (\A i \in 1..fd.bit_count : raw[i] = 0)
                      => SingleEq(res.val.v, low)
               /\ (\A i \in 1..fd.bit_count : raw[i] = 1)
                      => SingleEq(res.val.v, high)

\* the value and the end of a multiplayer coordinate at p, by the layout of
\* its fields: in_bounds, has_int, then sign, integer part and fraction
CoordMPLayout(s, p, is_integral, low_precision) ==
    LET in_bounds == Bit(s, p + 1) = 1
        has_int == Bit(s, p + 2) = 1
        sign == Bit(s, p + 3) = 1
        int_bits == IF in_bounds THEN 11 ELSE 14
        frac_bits == IF low_precision THEN 3 ELSE 5
        int_end == IF has_int THEN p + 3 + int_bits ELSE p + 3
        int_part == IF has_int THEN Field(s, p + 3, int_bits) + 1 ELSE 0
        magnitude == F32(int_part * Pow2(frac_bits) + Field(s, int_end, frac_bits),
                         Pow2(frac_bits))
    IN  IF is_integral
        THEN IF has_int
             THEN [end |-> int_end,
                   value |-> F32FromInt(IF sign THEN -int_part ELSE int_part)]
             ELSE [end |-> p + 2, value |-> F32FromInt(0)]
        ELSE [end |-> int_end + frac_bits,
              value |-> IF sign THEN F32Neg(magnitude) ELSE magnitude]

\* C14: a successful read of CoordMP, CoordMPLowPrecision or CoordMPIntegral
\* is read_bit_coord_mp with (is_integral, low_precision) = (false, false),
\* (false, true), (true, false): in_bounds and has_int are read first; the
\* integral mode reads the sign and the 11-bit (in bounds) or 14-bit integer
\* only when has_int is set, and otherwise consumes exactly 2 bits and
\* returns 0; the other modes always read the sign, the integer only when
\* has_int is set, and always a 3-bit (low precision) or 5-bit fraction; the
\* integer part is the field plus 1, the fraction is frac / 2^frac_bits, and
\* the value is negated when the sign bit is set.
C14_CoordMPLayout ==
    (/\ Decoded
     /\ Unwrap(arg).kind = "Float"
     /\ Unwrap(arg).definition.kind
            \in {"CoordMP", "CoordMPLowPrecision", "CoordMPIntegral"})
        => LET kind == Unwrap(arg).definition.kind
               layout == CoordMPLayout(stream, start, kind = "CoordMPIntegral",
                                       kind = "CoordMPLowPrecision")
           IN  /\ pos = layout.end
               /\ F32Eq(res.val.v, layout.value)
               /\ (kind = "CoordMPIntegral" /\ Bit(stream, start + 2) = 0)
                      => pos = start + 2 /\ F32Eq(res.val.v, F32FromInt(0))

\* C14 witness: a low-precision coordinate out of bounds, with an integer
\* part and the sign bit set, has been decoded from 3 + 14 + 3 bits to a
\* negative value
C14_Witness ==
    /\ Decoded
    /\ Unwrap(arg).kind = "Float"
    /\ Unwrap(arg).definition.kind = "CoordMPLowPrecision"
    /\ Bit(stream, start + 1) = 0
    /\ Bit(stream, start + 2) = 1
    /\ Bit(stream, start + 3) = 1
    /\ pos = start + 20
    /\ F32Less(res.val.v, F32FromInt(0))

\* the unsigned 32-bit value of the varint at p: bit j comes from the low
\* seven bits of byte (j - 1) \div 7 + 1, when the varint has that byte
VarIntU32(s, p) ==
    Vec([j \in 1..32 |->
            IF ((j - 1) \div 7) + 1 <= VarIntBytes(s, p)
            THEN Bit(s, p + 8 * ((j - 1) \div 7) + ((j - 1) % 7) + 1)
            ELSE 0], 32)

\* C16: a successful parse of NormalVarInt{unsigned: true} never yields a
\* negative Integer: for every varint, also one of five bytes with bit 31
\* set, the Integer is the unsigned 32-bit value, between 0 and 2^32 - 1.
C16_UnsignedVarIntNonNegative ==
    (/\ Decoded
     /\ Unwrap(arg).kind = "NormalVarInt"
     /\ Unwrap(arg).unsigned)
        => /\ res.val.kind = "Integer"
           /\ res.val.v = I64FromU32(VarIntU32(stream, start))
           /\ I64Leq(I64(0, 0), res.val.v)
           /\ I64Leq(res.val.v, I64(65535, 65535))

====
